---- MODULE Spec2Model ----
(***************************************************************************)
(* Model of the resumable playlist pipeline: the StateManager (state       *)
(* document, classification, reconciliation) and the scheduler of          *)
(* Summarizer.summarizePlaylist (processVideo, worker pool), together with *)
(* the state file on disk and process kills between runs.                  *)
(*                                                                         *)
(* JavaScript runs each callback to completion, so every action below is   *)
(* the synchronous code between two awaits of the source.                  *)
(***************************************************************************)
EXTENDS Integers, Sequences, FiniteSets, TLC

(***************************************************************************)
(* Bounds of the model.                                                    *)
(***************************************************************************)
MaxConcurrency == 2
MaxRuns == 2

(***************************************************************************)
(* Strings are sequences of one-character strings, so that the filename    *)
(* and slug conversions are computed character by character.               *)
(***************************************************************************)
Png == <<".", "p", "n", "g">>

T1 == <<"0", ":", "5">>
T2 == <<"1", ":", "0">>
T3 == <<"1", ":", "5">>

\* What gemini.summarizeVideo can return: per section the timestamp and the
\* screenshotTimestamp (which falls back to the timestamp when absent).
SummaryResults ==
    { [timestamps |-> <<>>, screenshotTimestamps |-> <<>>],
      [timestamps |-> <<T1>>, screenshotTimestamps |-> <<T1>>],
      [timestamps |-> <<T1, T2>>, screenshotTimestamps |-> <<T1, T3>>],
      [timestamps |-> <<T1, T2>>, screenshotTimestamps |-> <<T1, T2>>] }

VideoIds == <<"a", "b", "c">>
TitleA == <<"M", "y", " ", "a">>
TitleB == <<"b", "?">>
Titles == {TitleA, TitleB}

TitleOf(id) == IF id = "a" THEN TitleA ELSE TitleB

Range(s) == {s[i] : i \in 1..Len(s)}

IsPrefix(s, t) == Len(s) <= Len(t) /\ SubSeq(t, 1, Len(s)) = s

Min(a, b) == IF a <= b THEN a ELSE b

RECURSIVE SelectIn(_, _)
\* Array.prototype.filter with the predicate "member of keep"
SelectIn(s, keep) ==
    IF s = <<>> THEN <<>>
    ELSE IF Head(s) \in keep THEN <<Head(s)>> \o SelectIn(Tail(s), keep)
         ELSE SelectIn(Tail(s), keep)

(***************************************************************************)
(* ScreenshotCapturer.formatTimestampForFilename and captureMultiple's     *)
(* filename, and the inverse that processVideo applies to recorded files.  *)
(***************************************************************************)
ReplaceAll(s, from, to) == [i \in 1..Len(s) |-> IF s[i] = from THEN to ELSE s[i]]

formatTimestampForFilename(timestamp) == ReplaceAll(timestamp, ":", "-")

CaptureFilename(timestamp) == formatTimestampForFilename(timestamp) \o Png

\* String.prototype.replace with a string pattern: the first occurrence only
RemoveFirst(s, pat) ==
    LET hits == {i \in 1..(Len(s) - Len(pat) + 1) : SubSeq(s, i, i + Len(pat) - 1) = pat}
    IN  IF hits = {} THEN s
        ELSE LET i == CHOOSE j \in hits : \A k \in hits : j <= k
             IN  SubSeq(s, 1, i - 1) \o SubSeq(s, i + Len(pat), Len(s))

\* an inverse that strips the extension and keeps the hyphens
ExistingTimestampKeepingHyphens(f) == RemoveFirst(f, Png)

ExistingTimestamp(f) == ReplaceAll(RemoveFirst(f, Png), "-", ":")

(***************************************************************************)
(* StateManager.sanitizeFilename and the zero-padded index of the slug.    *)
(***************************************************************************)
SliceLen == 50

Forbidden == {"<", ">", ":", "\"", "/", "\\", "|", "?", "*"}

ToLower(c) ==
    CASE c = "M" -> "m"
      [] c = "A" -> "a"
      [] c = "B" -> "b"
      [] OTHER -> c

RECURSIVE CollapseSpaces(_)
\* replace(/\s+/g, '-'): every maximal run of whitespace becomes one dash
CollapseSpaces(s) ==
    IF s = <<>> THEN <<>>
    ELSE IF Head(s) = " "
         THEN IF Len(s) > 1 /\ s[2] = " " THEN CollapseSpaces(Tail(s))
              ELSE <<"-">> \o CollapseSpaces(Tail(s))
         ELSE <<Head(s)>> \o CollapseSpaces(Tail(s))

sanitizeFilename(filename) ==
    LET stripped == SelectSeq(filename, LAMBDA c : c \notin Forbidden)
        dashed == CollapseSpaces(stripped)
        lower == [i \in 1..Len(dashed) |-> ToLower(dashed[i])]
    IN  SubSeq(lower, 1, Min(SliceLen, Len(lower)))

Digit(n) == <<"0", "1", "2", "3", "4", "5", "6", "7", "8", "9">>[n + 1]

RECURSIVE Digits(_)
Digits(n) == IF n < 10 THEN <<Digit(n)>> ELSE Digits(n \div 10) \o <<Digit(n % 10)>>

\* String(n).padStart(2, '0')
PadStart2(n) == IF n < 10 THEN <<"0">> \o Digits(n) ELSE Digits(n)

OutputDir(index, title) == PadStart2(index) \o <<"-">> \o sanitizeFilename(title)

(***************************************************************************)
(* The state document (PlaylistState) and the StateManager's operations    *)
(* on it, as functions of the document. "order" is the insertion order of  *)
(* the keys of the videos object.                                          *)
(***************************************************************************)
NewVideoState(index, title) ==
    [ title |-> title,
      outputDir |-> OutputDir(index, title),
      summary |-> [status |-> "pending", timestamps |-> <<>>, error |-> ""],
      screenshots |-> [status |-> "pending", total |-> 0, completed |-> 0,
                       files |-> <<>>, error |-> ""] ]

EmptyDoc ==
    [ withScreenshots |-> FALSE, totalVideos |-> 0, createdAt |-> 0, updatedAt |-> 0,
      order |-> <<>>, videos |-> <<>> ]

Tracked(s) == DOMAIN s.videos

\* initialize: the record before its save
initialize(withScreenshots, vids, clock) ==
    LET ids == {vids[i].id : i \in 1..Len(vids)}
        \* a later entry with the same id overwrites the earlier one in place
        last(id) == CHOOSE i \in 1..Len(vids) :
                        vids[i].id = id /\ \A j \in 1..Len(vids) : vids[j].id = id => j <= i
        first(id) == CHOOSE i \in 1..Len(vids) :
                        vids[i].id = id /\ \A j \in 1..Len(vids) : vids[j].id = id => i <= j
        idSeq == [i \in 1..Len(vids) |-> vids[i].id]
        firsts == {first(id) : id \in ids}
        RECURSIVE keys(_)
        keys(i) == IF i > Len(vids) THEN <<>>
                   ELSE IF i \in firsts THEN <<idSeq[i]>> \o keys(i + 1) ELSE keys(i + 1)
    IN  [ withScreenshots |-> withScreenshots,
          totalVideos |-> Len(vids),
          createdAt |-> clock,
          updatedAt |-> clock,
          order |-> keys(1),
          videos |-> [id \in ids |-> NewVideoState(last(id), vids[last(id)].title)] ]

RECURSIVE addLoop(_, _, _, _)
\* the for loop of addNewVideos: s is the record, added the ids pushed so far
addLoop(s, vids, existingCount, added) ==
    IF vids = <<>> THEN [doc |-> s, newVideoIds |-> added]
    ELSE LET video == Head(vids)
         IN  IF video.id \in Tracked(s)
             THEN addLoop(s, Tail(vids), existingCount, added)
             ELSE LET newIndex == existingCount + Len(added) + 1
                      grown == [s EXCEPT
                                  !.order = Append(@, video.id),
                                  !.videos = [id \in Tracked(s) \cup {video.id} |->
                                                 IF id = video.id
                                                 THEN NewVideoState(newIndex, video.title)
                                                 ELSE s.videos[id]]]
                  IN  addLoop(grown, Tail(vids), existingCount, Append(added, video.id))

\* a reconcile that also takes the title of a tracked video from the incoming list
addNewVideosRetitling(s, vids) ==
    LET r == addLoop(s, vids, Cardinality(Tracked(s)), <<>>)
        retitled == [r.doc EXCEPT !.videos =
                        [id \in Tracked(r.doc) |->
                            IF \E i \in 1..Len(vids) : vids[i].id = id
                            THEN [r.doc.videos[id] EXCEPT !.title =
                                     vids[CHOOSE i \in 1..Len(vids) : vids[i].id = id].title]
                            ELSE r.doc.videos[id]]]
    IN  IF Len(r.newVideoIds) > 0
        THEN [doc |-> [retitled EXCEPT !.totalVideos = Cardinality(Tracked(r.doc))],
              newVideoIds |-> r.newVideoIds, saves |-> TRUE]
        ELSE [doc |-> retitled, newVideoIds |-> r.newVideoIds, saves |-> FALSE]

\* a reconcile that recomputes the count and saves whether or not it added a video
addNewVideosAlwaysSaving(s, vids) ==
    LET r == addLoop(s, vids, Cardinality(Tracked(s)), <<>>)
    IN  [doc |-> [r.doc EXCEPT !.totalVideos = Cardinality(Tracked(r.doc))],
         newVideoIds |-> r.newVideoIds, saves |-> TRUE]

\* addNewVideos: the record before its save, the ids added, and whether it saves
addNewVideos(s, vids) ==
    LET r == addLoop(s, vids, Cardinality(Tracked(s)), <<>>)
    IN  IF Len(r.newVideoIds) > 0
        THEN [doc |-> [r.doc EXCEPT !.totalVideos = Cardinality(Tracked(r.doc))],
              newVideoIds |-> r.newVideoIds, saves |-> TRUE]
        ELSE [doc |-> r.doc, newVideoIds |-> r.newVideoIds, saves |-> FALSE]

NoTimestamps == [given |-> FALSE, list |-> <<>>]
Given(list) == [given |-> TRUE, list |-> list]

\* an updateSummaryStatus that writes the status into every tracked video
updateSummaryStatusOfAll(s, videoId, status, timestamps, error) ==
    IF videoId \notin Tracked(s) THEN s
    ELSE [s EXCEPT !.videos = [id \in Tracked(s) |->
             [s.videos[id] EXCEPT !.summary.status = status, !.summary.error = error]]]

\* updateSummaryStatus: the record before its save (unchanged if untracked)
updateSummaryStatus(s, videoId, status, timestamps, error) ==
    IF videoId \notin Tracked(s) THEN s
    ELSE LET summary == [status |-> status,
                         timestamps |-> IF timestamps.given THEN timestamps.list ELSE <<>>,
                         error |-> error]
             withSummary == [s EXCEPT !.videos[videoId].summary = summary]
         IN  IF timestamps.given
             THEN [withSummary EXCEPT
                      !.videos[videoId].screenshots.total = Len(timestamps.list)]
             ELSE withSummary

\* updateScreenshotStatus: the record before its save (unchanged if untracked)
updateScreenshotStatus(s, videoId, status, completedCount, files, error) ==
    IF videoId \notin Tracked(s) THEN s
    ELSE [s EXCEPT !.videos[videoId].screenshots =
             [status |-> status,
              total |-> s.videos[videoId].screenshots.total,
              completed |-> completedCount,
              files |-> files,
              error |-> error]]

getPendingVideos(s) ==
    LET notDone == {id \in Tracked(s) :
                      LET summaryDone == s.videos[id].summary.status = "completed"
                          screenshotsDone == \/ ~s.withScreenshots
                                             \/ s.videos[id].screenshots.status = "completed"
                      IN  ~(summaryDone /\ screenshotsDone)}
    IN  SelectIn(s.order, notDone)

getFailedVideos(s) ==
    SelectIn(s.order, {id \in Tracked(s) :
                          \/ s.videos[id].summary.status = "failed"
                          \/ s.videos[id].screenshots.status = "failed"})

getStats(s) ==
    LET failedIds == {id \in Tracked(s) :
                        \/ s.videos[id].summary.status = "failed"
                        \/ s.videos[id].screenshots.status = "failed"}
        doneIds == {id \in Tracked(s) :
                      /\ s.videos[id].summary.status = "completed"
                      /\ (~s.withScreenshots \/ s.videos[id].screenshots.status = "completed")}
        activeIds == {id \in Tracked(s) :
                        \/ s.videos[id].summary.status = "in_progress"
                        \/ s.videos[id].screenshots.status = "in_progress"}
    IN  [ total |-> s.totalVideos,
          completed |-> Cardinality(doneIds \ failedIds),
          inProgress |-> Cardinality((activeIds \ doneIds) \ failedIds),
          failed |-> Cardinality(failedIds),
          pending |-> Cardinality(((Tracked(s) \ activeIds) \ doneIds) \ failedIds) ]

(***************************************************************************)
(* The running system: the state file, one process at a time running       *)
(* summarizePlaylist (process 0 is its main flow, processes 1.. are the    *)
(* runNext workers), and history variables used to state the properties.   *)
(***************************************************************************)
VARIABLES
    file,            \* the state file: absent, a complete document, or torn
    now,             \* the clock read by new Date()
    phase,           \* where the process is: idle (not running), starting, spawning, running, done
    cfg,             \* SummarizerConfig of this run
    hasState,        \* StateManager.state is not null
    state,           \* StateManager.state
    videos,          \* the work list (ids of the videos to process)
    nextIndex,       \* the shared cursor of the pool (0-based, as in the source)
    completedCount,  \* the counter reported by onVideoComplete
    started,         \* number of runNext workers started
    pc,              \* per process: the await it is suspended at
    cur,             \* per worker: 1-based position in videos of its current item
    after,           \* per process: what follows the save in flight
    shotTs,          \* per worker: local screenshotTimestamps
    pendingTs,       \* per worker: local pendingTimestamps
    existingFiles,   \* per worker: local existingFiles
    results,         \* per worker: success flag of each capture result
    snapshot,        \* per process: the document serialized for its writeFile
    overlapped,      \* per process: another writeFile was in flight during this one
    outcome,         \* per worker: how its last processVideo ended (none, ok, error)
    runs,            \* history: number of runs started
    durable,         \* history: per video, what completed writes have put on disk
    claims,          \* history: per position of videos, how often it was claimed
    lastCall,        \* history: the last initialize / addNewVideos call and what it returned
    calls            \* history: number of StateManager calls made by the store's caller

vars == << file, now, phase, cfg, hasState, state, videos, nextIndex, completedCount,
           started, pc, cur, after, shotTs, pendingTs, existingFiles, results, snapshot,
           overlapped, outcome, runs, durable, claims, lastCall, calls >>

Procs == 0..MaxConcurrency
Workers == 1..MaxConcurrency
UsedIds == Range(VideoIds)

Absent == [kind |-> "absent", doc |-> EmptyDoc]
Torn == [kind |-> "torn", doc |-> EmptyDoc]
Written(d) == [kind |-> "doc", doc |-> d]

NoCall == [op |-> "none", repeat |-> "no", vids |-> <<>>, returned |-> <<>>, saved |-> FALSE]

DefaultCfg == [concurrency |-> 1, withScreenshots |-> FALSE, testMode |-> FALSE]

\* the memory of a process that is not running
MemoryInit ==
    /\ cfg = DefaultCfg
    /\ hasState = FALSE
    /\ state = EmptyDoc
    /\ videos = <<>>
    /\ nextIndex = 0
    /\ completedCount = 0
    /\ started = 0
    /\ pc = [p \in Procs |-> "off"]
    /\ cur = [p \in Procs |-> 0]
    /\ after = [p \in Procs |-> "none"]
    /\ shotTs = [p \in Procs |-> <<>>]
    /\ pendingTs = [p \in Procs |-> <<>>]
    /\ existingFiles = [p \in Procs |-> <<>>]
    /\ results = [p \in Procs |-> <<>>]
    /\ snapshot = [p \in Procs |-> EmptyDoc]
    /\ overlapped = [p \in Procs |-> FALSE]
    /\ outcome = [p \in Procs |-> "none"]
    /\ claims = <<>>

Init ==
    /\ file = Absent
    /\ now = 0
    /\ phase = "idle"
    /\ MemoryInit
    /\ runs = 0
    /\ durable = [id \in UsedIds |-> [summarized |-> FALSE, files |-> <<>>]]
    /\ lastCall = NoCall
    /\ calls = 0

\* the process ends (killed or returned): its memory is gone, the file stays
MemoryLost ==
    /\ cfg' = DefaultCfg
    /\ hasState' = FALSE
    /\ state' = EmptyDoc
    /\ videos' = <<>>
    /\ nextIndex' = 0
    /\ completedCount' = 0
    /\ started' = 0
    /\ pc' = [p \in Procs |-> "off"]
    /\ cur' = [p \in Procs |-> 0]
    /\ after' = [p \in Procs |-> "none"]
    /\ shotTs' = [p \in Procs |-> <<>>]
    /\ pendingTs' = [p \in Procs |-> <<>>]
    /\ existingFiles' = [p \in Procs |-> <<>>]
    /\ results' = [p \in Procs |-> <<>>]
    /\ snapshot' = [p \in Procs |-> EmptyDoc]
    /\ overlapped' = [p \in Procs |-> FALSE]
    /\ outcome' = [p \in Procs |-> "none"]
    /\ claims' = <<>>

\* save(), synchronous part: stamp updatedAt; the caller then awaits mkdir
Stamp(s) == [s EXCEPT !.updatedAt = now]

\* StateManager.load: null when the file is absent or does not parse
load(f) == IF f.kind = "doc" THEN [ok |-> TRUE, doc |-> f.doc] ELSE [ok |-> FALSE, doc |-> EmptyDoc]

\* the playlist as the catalog returns it in a run: its first k videos
Catalog(k) == [i \in 1..k |-> [id |-> VideoIds[i], title |-> TitleOf(VideoIds[i])]]

SeqPlaylists == {Catalog(0), Catalog(1), Catalog(2)}
PoolPlaylists == {Catalog(1), Catalog(2), Catalog(3)}

(***************************************************************************)
(* summarizePlaylist, main flow.                                           *)
(***************************************************************************)
WorkerVarsUnchanged ==
    UNCHANGED << cur, shotTs, pendingTs, existingFiles, results, outcome, claims,
                 nextIndex, completedCount, started >>

\* lines 112-139: the pending ids, cut to the last one in test mode
VideoIdsToProcess(s, testMode) ==
    LET pendingVideoIds == getPendingVideos(s)
    IN  IF testMode /\ pendingVideoIds # <<>>
        THEN <<pendingVideoIds[Len(pendingVideoIds)]>>
        ELSE pendingVideoIds

\* lines 112-141 once the state is settled: return early when nothing is
\* pending, else ask the catalog for the details of the work list
AfterReconcile(s, testMode) ==
    IF getPendingVideos(s) = <<>>
    THEN /\ phase' = "done"
         /\ pc' = [pc EXCEPT ![0] = "returned"]
         /\ videos' = <<>>
    ELSE /\ phase' = "starting"
         /\ pc' = [pc EXCEPT ![0] = "details"]
         /\ videos' = VideoIdsToProcess(s, testMode)

\* A process starts: lines 60-110. It loads the state file, then initializes
\* a new record or reconciles the loaded one with the playlist.
RunStart(c, currentVideos) ==
    /\ phase = "idle"
    /\ runs' = runs + 1
    /\ cfg' = c
    /\ hasState' = TRUE
    /\ LET l == load(file)
       IN  IF ~l.ok
           THEN \* initialize(...) up to the await inside save()
                /\ state' = initialize(c.withScreenshots, currentVideos, now)
                /\ lastCall' = [op |-> "initialize", repeat |-> "no", vids |-> currentVideos, returned |-> <<>>,
                                saved |-> TRUE]
                /\ phase' = "starting"
                /\ pc' = [pc EXCEPT ![0] = "mkdir"]
                /\ after' = [after EXCEPT ![0] = "reconciled"]
                /\ videos' = <<>>
           ELSE LET r == addNewVideos(l.doc, currentVideos)
                IN  /\ lastCall' = [op |-> "addNewVideos", repeat |-> "no", vids |-> currentVideos,
                                    returned |-> r.newVideoIds, saved |-> r.saves]
                    /\ IF r.saves
                       THEN /\ state' = Stamp(r.doc)
                            /\ phase' = "starting"
                            /\ pc' = [pc EXCEPT ![0] = "mkdir"]
                            /\ after' = [after EXCEPT ![0] = "reconciled"]
                            /\ videos' = <<>>
                       ELSE /\ state' = r.doc
                            /\ after' = after
                            /\ AfterReconcile(r.doc, c.testMode)
    /\ WorkerVarsUnchanged
    /\ UNCHANGED << file, now, snapshot, overlapped, durable, calls >>

\* lines 66-83: the playlist URL is missing, or getPlaylistInfo or
\* getPlaylistVideos rejects (playlist not found): summarizePlaylist throws
\* before it has created its StateManager's record
RunAbort(c) ==
    /\ phase = "idle"
    /\ runs' = runs + 1
    /\ cfg' = c
    /\ phase' = "done"
    /\ pc' = [pc EXCEPT ![0] = "threw"]
    /\ WorkerVarsUnchanged
    /\ UNCHANGED << file, now, hasState, state, videos, after, snapshot, overlapped, durable,
                    lastCall, calls >>

(***************************************************************************)
(* save(): mkdir resolves, the record is serialized and writeFile starts   *)
(* (the file is truncated); then writeFile completes. Two writeFile calls  *)
(* on the same path that overlap may leave either content or a mix.        *)
(***************************************************************************)
Writing == {p \in Procs : pc[p] = "writing"}

WriteBegin(p) ==
    /\ phase \in {"starting", "running"}
    /\ pc[p] = "mkdir"
    /\ snapshot' = [snapshot EXCEPT ![p] = state]
    /\ file' = Torn
    /\ pc' = [pc EXCEPT ![p] = "writing"]
    /\ overlapped' = [q \in Procs |->
                        IF Writing # {} /\ (q = p \/ q \in Writing) THEN TRUE ELSE overlapped[q]]
    /\ WorkerVarsUnchanged
    /\ UNCHANGED << now, phase, cfg, hasState, state, videos, after, runs, durable, lastCall, calls >>

\* what a completed write has put on disk, per video
Record(d, f) ==
    IF f.kind # "doc" THEN d
    ELSE [id \in DOMAIN d |->
            IF id \notin Tracked(f.doc) THEN d[id]
            ELSE [summarized |-> d[id].summarized
                                   \/ f.doc.videos[id].summary.status = "completed",
                  files |-> IF Len(f.doc.videos[id].screenshots.files) > Len(d[id].files)
                            THEN f.doc.videos[id].screenshots.files
                            ELSE d[id].files]]

\* the file when the writeFile of p completes
WriteOutcomes(p) == {Written(snapshot[p])} \cup (IF overlapped[p] THEN {Torn} ELSE {})

Landed(p, f) ==
    /\ pc[p] = "writing"
    /\ f \in WriteOutcomes(p)
    /\ file' = f
    /\ durable' = Record(durable, f)
    /\ snapshot' = [snapshot EXCEPT ![p] = EmptyDoc]
    /\ overlapped' = [overlapped EXCEPT ![p] = FALSE]

\* the save of initialize / addNewVideos completes: lines 112-141
WriteEndMain(f) ==
    /\ phase = "starting"
    /\ Landed(0, f)
    /\ after[0] = "reconciled"
    /\ after' = [after EXCEPT ![0] = "none"]
    /\ AfterReconcile(state, cfg.testMode)
    /\ WorkerVarsUnchanged
    /\ UNCHANGED << now, cfg, hasState, state, runs, lastCall, calls >>

(***************************************************************************)
(* processVideo.                                                           *)
(***************************************************************************)
ErrSummarize == "summarize failed"
ErrCapture == "capture raised"
ErrShot == "shot failed"

Video(w) == videos[cur[w]]

\* lines 204-210
ExistingTimestamps(files) == {ExistingTimestamp(files[i]) : i \in 1..Len(files)}

PendingTimestamps(screenshotTimestamps, files) ==
    SelectIn(screenshotTimestamps, Range(screenshotTimestamps) \ ExistingTimestamps(files))

\* a capture step that reports the position of the item in the work list
\* instead of the count of items finished
CaptureStepCountingPosition(w, i, s, sts) ==
    LET v == videos[i]
        files == s.videos[v].screenshots.files
        pending == PendingTimestamps(sts, files)
    IN  /\ shotTs' = [shotTs EXCEPT ![w] = sts]
        /\ existingFiles' = [existingFiles EXCEPT ![w] = files]
        /\ pendingTs' = [pendingTs EXCEPT ![w] = pending]
        /\ results' = [results EXCEPT ![w] = <<>>]
        /\ IF cfg.withScreenshots /\ Len(pending) > 0
           THEN /\ state' = Stamp(updateScreenshotStatus(s, v, "in_progress", Len(files), files, ""))
                /\ pc' = [pc EXCEPT ![w] = "mkdir"]
                /\ after' = [after EXCEPT ![w] = "capture"]
                /\ completedCount' = completedCount
                /\ outcome' = [outcome EXCEPT ![w] = "none"]
           ELSE /\ state' = s
                /\ pc' = [pc EXCEPT ![w] = "next"]
                /\ after' = [after EXCEPT ![w] = "none"]
                /\ completedCount' = i
                /\ outcome' = [outcome EXCEPT ![w] = "ok"]

\* lines 202-225 and 273-274: the capture step up to its first await, for the
\* item at position i handled by w, with record s and timestamps sts
CaptureStep(w, i, s, sts) ==
    LET v == videos[i]
        files == s.videos[v].screenshots.files
        pending == PendingTimestamps(sts, files)
    IN  /\ shotTs' = [shotTs EXCEPT ![w] = sts]
        /\ existingFiles' = [existingFiles EXCEPT ![w] = files]
        /\ pendingTs' = [pendingTs EXCEPT ![w] = pending]
        /\ results' = [results EXCEPT ![w] = <<>>]
        /\ IF cfg.withScreenshots /\ Len(pending) > 0
           THEN /\ state' = Stamp(updateScreenshotStatus(s, v, "in_progress", Len(files), files, ""))
                /\ pc' = [pc EXCEPT ![w] = "mkdir"]
                /\ after' = [after EXCEPT ![w] = "capture"]
                /\ completedCount' = completedCount
                /\ outcome' = [outcome EXCEPT ![w] = "none"]
           ELSE /\ state' = s
                /\ pc' = [pc EXCEPT ![w] = "next"]
                /\ after' = [after EXCEPT ![w] = "none"]
                /\ completedCount' = completedCount + 1
                /\ outcome' = [outcome EXCEPT ![w] = "ok"]

\* lines 147-200: processVideo(videos[i], i) called by w, up to its first await
Begin(w, i) ==
    LET v == videos[i]
    IN  /\ cur' = [cur EXCEPT ![w] = i]
        /\ claims' = [claims EXCEPT ![i] = @ + 1]
        /\ IF v \notin Tracked(state)
           THEN /\ pc' = [pc EXCEPT ![w] = "next"]
                /\ outcome' = [outcome EXCEPT ![w] = "none"]
                /\ UNCHANGED << state, after, shotTs, pendingTs, existingFiles, results,
                                completedCount >>
           ELSE IF state.videos[v].summary.status # "completed"
           THEN /\ state' = Stamp(updateSummaryStatus(state, v, "in_progress", NoTimestamps, ""))
                /\ pc' = [pc EXCEPT ![w] = "mkdir"]
                /\ after' = [after EXCEPT ![w] = "summarize"]
                /\ outcome' = [outcome EXCEPT ![w] = "none"]
                /\ shotTs' = [shotTs EXCEPT ![w] = <<>>]
                /\ pendingTs' = [pendingTs EXCEPT ![w] = <<>>]
                /\ existingFiles' = [existingFiles EXCEPT ![w] = <<>>]
                /\ results' = [results EXCEPT ![w] = <<>>]
                /\ completedCount' = completedCount
           ELSE CaptureStep(w, i, state, state.videos[v].summary.timestamps)

\* a catch block that records every error in the Summarize stage
CatchAlwaysSummarize(w, message) ==
    /\ state' = Stamp(updateSummaryStatus(state, Video(w), "failed", NoTimestamps, message))
    /\ pc' = [pc EXCEPT ![w] = "mkdir"]
    /\ after' = [after EXCEPT ![w] = "caught"]

\* a catch block that rethrows: the chain of worker w is rejected
CatchRethrow(w, message) ==
    /\ state' = state
    /\ pc' = [pc EXCEPT ![w] = "rejected"]
    /\ after' = [after EXCEPT ![w] = message]

\* a catch block that records every error in the Capture stage
CatchAlwaysCapture(w, message) ==
    /\ state' = Stamp(updateScreenshotStatus(state, Video(w), "failed",
                          state.videos[Video(w)].screenshots.completed,
                          state.videos[Video(w)].screenshots.files, message))
    /\ pc' = [pc EXCEPT ![w] = "mkdir"]
    /\ after' = [after EXCEPT ![w] = "caught"]

\* lines 275-292: the catch block up to the await inside save()
Catch(w, message) ==
    LET v == Video(w)
        currentVideoState == state.videos[v]
    IN  /\ state' = IF currentVideoState.summary.status # "completed"
                    THEN Stamp(updateSummaryStatus(state, v, "failed", NoTimestamps, message))
                    ELSE Stamp(updateScreenshotStatus(state, v, "failed",
                                   currentVideoState.screenshots.completed,
                                   currentVideoState.screenshots.files, message))
        /\ pc' = [pc EXCEPT ![w] = "mkdir"]
        /\ after' = [after EXCEPT ![w] = "caught"]

(***************************************************************************)
(* The scheduler: lines 141-146 and 295-319.                               *)
(***************************************************************************)
\* the number of processVideo chains the scheduler starts
PoolSize(concurrency, n) == IF concurrency <= 1 THEN Min(1, n) ELSE Min(concurrency, n)

\* getVideoDetails returns; the scheduler is entered
DetailsReturn ==
    /\ phase = "starting"
    /\ pc[0] = "details"
    /\ claims' = [i \in 1..Len(videos) |-> 0]
    /\ nextIndex' = 0
    /\ completedCount' = 0
    /\ started' = 0
    /\ pc' = [pc EXCEPT ![0] = "pool"]
    /\ phase' = IF PoolSize(cfg.concurrency, Len(videos)) = 0 THEN "running" ELSE "spawning"
    /\ UNCHANGED << file, now, cfg, hasState, state, videos, cur, after, shotTs, pendingTs,
                    existingFiles, results, snapshot, overlapped, outcome, runs, durable, lastCall, calls >>

\* a loop that steps over every other position
forLoopSkipping(w) ==
    /\ cur[w] + 1 < Len(videos)
    /\ Begin(w, cur[w] + 2)
    /\ nextIndex' = nextIndex

\* lines 297-299: for (let i = 0; i < videos.length; i++) await processVideo(videos[i], i).
\* The loop variable i is cur[w] when the call for position cur[w] has returned
\* (0 before the first call); the pool's cursor is not declared on this path.
forLoop(w) ==
    /\ cur[w] < Len(videos)
    /\ Begin(w, cur[w] + 1)
    /\ nextIndex' = nextIndex

\* lines 305-310: while (nextIndex < videos.length) { currentIndex = nextIndex++; ... }
runNext(w) ==
    /\ nextIndex < Len(videos)
    /\ nextIndex' = nextIndex + 1
    /\ Begin(w, nextIndex + 1)

\* pool.push(runNext()), or the first iteration of the sequential loop: the
\* chain runs synchronously up to its first await, before the next one starts
StartWorker ==
    /\ phase = "spawning"
    /\ LET w == started + 1
       IN  /\ started' = w
           /\ IF cfg.concurrency <= 1 THEN forLoop(w) ELSE runNext(w)
           /\ phase' = IF w = PoolSize(cfg.concurrency, Len(videos)) THEN "running" ELSE "spawning"
    /\ UNCHANGED << file, now, cfg, hasState, videos, snapshot, overlapped, runs, durable, lastCall, calls >>

\* a claim that reads the cursor and does not advance it
ClaimNextNoAdvance(w) ==
    /\ phase = "running"
    /\ pc[w] = "next"
    /\ nextIndex < Len(videos)
    /\ nextIndex' = nextIndex
    /\ Begin(w, nextIndex + 1)
    /\ UNCHANGED << file, now, phase, cfg, hasState, videos, started, snapshot, overlapped,
                    runs, durable, lastCall, calls >>

\* the number of positions handed to processVideo so far: i + 1 of the call
\* in progress in the sequential loop, nextIndex in the pool
Cursor == IF cfg.concurrency <= 1 THEN cur[1] ELSE nextIndex

\* processVideo has returned to its caller: the next iteration of the
\* sequential loop, or of the loop of runNext
ClaimNext(w) ==
    /\ phase = "running"
    /\ pc[w] = "next"
    /\ IF cfg.concurrency <= 1 THEN forLoop(w) ELSE runNext(w)
    /\ UNCHANGED << file, now, phase, cfg, hasState, videos, started, snapshot, overlapped,
                    runs, durable, lastCall, calls >>

ExitLoop(w) ==
    /\ phase = "running"
    /\ pc[w] = "next"
    /\ IF cfg.concurrency <= 1 THEN cur[w] >= Len(videos) ELSE nextIndex >= Len(videos)
    /\ pc' = [pc EXCEPT ![w] = "exited"]
    /\ UNCHANGED << file, now, phase, cfg, hasState, state, videos, nextIndex, completedCount,
                    started, cur, after, shotTs, pendingTs, existingFiles, results, snapshot,
                    overlapped, outcome, runs, durable, claims, lastCall, calls >>

\* a save of processVideo completes and the code after it runs to the next await
WriteEnd(w, f) ==
    /\ phase = "running"
    /\ w \in Workers
    /\ Landed(w, f)
    /\ \/ /\ after[w] = "summarize"        \* lines 167-180: the summarizer is called
          /\ pc' = [pc EXCEPT ![w] = "summarizing"]
          /\ after' = [after EXCEPT ![w] = "none"]
          /\ UNCHANGED << state, shotTs, pendingTs, existingFiles, results, completedCount,
                          outcome >>
       \/ /\ after[w] = "summarized"       \* lines 194-225
          /\ CaptureStep(w, cur[w], state, shotTs[w])
       \/ /\ after[w] = "capture"          \* lines 227-233: the capturer is called
          /\ pc' = [pc EXCEPT ![w] = "capturing"]
          /\ after' = [after EXCEPT ![w] = "none"]
          /\ UNCHANGED << state, shotTs, pendingTs, existingFiles, results, completedCount,
                          outcome >>
       \/ /\ after[w] = "captured"         \* lines 268-274
          /\ pc' = [pc EXCEPT ![w] = "next"]
          /\ after' = [after EXCEPT ![w] = "none"]
          /\ completedCount' = completedCount + 1
          /\ outcome' = [outcome EXCEPT ![w] = "ok"]
          /\ UNCHANGED << state, shotTs, pendingTs, existingFiles, results >>
       \/ /\ after[w] = "caught"           \* line 292: the catch block ends
          /\ pc' = [pc EXCEPT ![w] = "next"]
          /\ after' = [after EXCEPT ![w] = "none"]
          /\ outcome' = [outcome EXCEPT ![w] = "error"]
          /\ UNCHANGED << state, shotTs, pendingTs, existingFiles, results, completedCount >>
    /\ UNCHANGED << now, phase, cfg, hasState, videos, nextIndex, started, cur, runs, claims,
                    lastCall, calls >>

\* lines 180-194: captions, summary and markdown succeeded
SummarizeReturn(w, summary) ==
    /\ phase = "running"
    /\ pc[w] = "summarizing"
    /\ shotTs' = [shotTs EXCEPT ![w] = summary.screenshotTimestamps]
    /\ state' = Stamp(updateSummaryStatus(state, Video(w), "completed",
                                          Given(summary.timestamps), ""))
    /\ pc' = [pc EXCEPT ![w] = "mkdir"]
    /\ after' = [after EXCEPT ![w] = "summarized"]
    /\ UNCHANGED << file, now, phase, cfg, hasState, videos, nextIndex, completedCount, started,
                    cur, pendingTs, existingFiles, results, snapshot, overlapped, outcome,
                    runs, durable, claims, lastCall, calls >>

\* one of getCaptions, summarizeVideo, writeToFile raises
SummarizeRaise(w) ==
    /\ phase = "running"
    /\ pc[w] = "summarizing"
    /\ Catch(w, ErrSummarize)
    /\ UNCHANGED << file, now, phase, cfg, hasState, videos, nextIndex, completedCount, started,
                    cur, shotTs, pendingTs, existingFiles, results, snapshot, overlapped,
                    outcome, runs, durable, claims, lastCall, calls >>

\* lines 235-266: captureMultiple returns one result per requested timestamp
CaptureReturn(w, flags) ==
    /\ phase = "running"
    /\ pc[w] = "capturing"
    /\ Len(flags) = Len(pendingTs[w])
    /\ LET newSuccessfulFiles ==
               LET RECURSIVE pick(_)
                   pick(i) == IF i > Len(flags) THEN <<>>
                              ELSE IF flags[i]
                                   THEN <<CaptureFilename(pendingTs[w][i])>> \o pick(i + 1)
                                   ELSE pick(i + 1)
               IN  pick(1)
           allSuccessfulFiles == existingFiles[w] \o newSuccessfulFiles
           failedResults == {i \in 1..Len(flags) : ~flags[i]}
       IN  state' = IF failedResults # {}
                    THEN Stamp(updateScreenshotStatus(state, Video(w), "failed",
                                   Len(allSuccessfulFiles), allSuccessfulFiles, ErrShot))
                    ELSE Stamp(updateScreenshotStatus(state, Video(w), "completed",
                                   Len(allSuccessfulFiles), allSuccessfulFiles, ""))
    /\ results' = [results EXCEPT ![w] = flags]
    /\ pc' = [pc EXCEPT ![w] = "mkdir"]
    /\ after' = [after EXCEPT ![w] = "captured"]
    /\ UNCHANGED << file, now, phase, cfg, hasState, videos, nextIndex, completedCount, started,
                    cur, shotTs, pendingTs, existingFiles, snapshot, overlapped, outcome,
                    runs, durable, claims, lastCall, calls >>

\* captureMultiple raises (ensureDir is outside captureScreenshot's try)
CaptureRaise(w) ==
    /\ phase = "running"
    /\ pc[w] = "capturing"
    /\ Catch(w, ErrCapture)
    /\ UNCHANGED << file, now, phase, cfg, hasState, videos, nextIndex, completedCount, started,
                    cur, shotTs, pendingTs, existingFiles, results, snapshot, overlapped,
                    outcome, runs, durable, claims, lastCall, calls >>

\* lines 318-336: every chain has ended; the stats are reported
Finish ==
    /\ phase = "running"
    /\ pc[0] = "pool"
    /\ \A w \in 1..started : pc[w] = "exited"
    /\ phase' = "done"
    /\ pc' = [pc EXCEPT ![0] = "returned"]
    /\ UNCHANGED << file, now, cfg, hasState, state, videos, nextIndex, completedCount,
                    started, cur, after, shotTs, pendingTs, existingFiles, results, snapshot,
                    overlapped, outcome, runs, durable, claims, lastCall, calls >>

\* the process exits after summarizePlaylist has returned
Exit ==
    /\ phase = "done"
    /\ phase' = "idle"
    /\ MemoryLost
    /\ UNCHANGED << file, now, runs, durable, lastCall, calls >>

\* the process is killed while it is suspended at an await
Kill ==
    /\ phase \in {"starting", "running"}
    /\ phase' = "idle"
    /\ MemoryLost
    /\ UNCHANGED << file, now, runs, durable, lastCall, calls >>

\* Inputs of the sequential runs (concurrency 1, the default of the
\* configuration) and of the pooled run.
SeqConfigs == [concurrency : {1}, withScreenshots : BOOLEAN, testMode : BOOLEAN]
PoolConfigs == [concurrency : 1..MaxConcurrency, withScreenshots : BOOLEAN, testMode : BOOLEAN]

PoolSummaryResults ==
    { [timestamps |-> <<>>, screenshotTimestamps |-> <<>>],
      [timestamps |-> <<T1>>, screenshotTimestamps |-> <<T1>>] }

FlagSeqs == UNION {[1..n -> BOOLEAN] : n \in 0..2}

\* Steps of a run after its start
RunStep(summaryResults) ==
    \/ \E f \in {Torn} \cup {Written(snapshot[0])} : WriteEndMain(f)
    \/ DetailsReturn
    \/ StartWorker
    \/ \E p \in Procs : WriteBegin(p)
    \/ \E w \in Workers : ClaimNext(w)
    \/ \E w \in Workers : ExitLoop(w)
    \/ \E w \in Workers : \E f \in {Torn} \cup {Written(snapshot[w])} : WriteEnd(w, f)
    \/ \E w \in Workers : \E summary \in summaryResults : SummarizeReturn(w, summary)
    \/ \E w \in Workers : SummarizeRaise(w)
    \/ \E w \in Workers : \E flags \in FlagSeqs : CaptureReturn(w, flags)
    \/ \E w \in Workers : CaptureRaise(w)
    \/ Finish

(***************************************************************************)
(* Spec: up to MaxRuns sequential runs over a playlist that may grow, each *)
(* of which may be killed at any await.                                    *)
(***************************************************************************)
Next ==
    \/ \E c \in SeqConfigs, list \in SeqPlaylists : runs < MaxRuns /\ RunStart(c, list)
    \/ \E c \in SeqConfigs : runs < MaxRuns /\ RunAbort(c)
    \/ RunStep(SummaryResults)
    \/ Exit
    \/ Kill

Spec == Init /\ [][Next]_vars

(***************************************************************************)
(* PoolSpec: one run of a fresh playlist with up to MaxConcurrency workers, *)
(* which is not killed.                                                    *)
(***************************************************************************)
PoolNext ==
    \/ \E c \in PoolConfigs, list \in PoolPlaylists : runs < 1 /\ RunStart(c, list)
    \/ RunStep(PoolSummaryResults)
    \/ Exit

PoolSpec == Init /\ [][PoolNext]_vars

(***************************************************************************)
(* StoreSpec: a caller that awaits each StateManager call before the next  *)
(* one, so that every call runs with its save from start to end.           *)
(***************************************************************************)
MaxCalls == 3
MaxClock == 1

PipelineUnchanged ==
    UNCHANGED << phase, cfg, videos, nextIndex, completedCount, started, pc, cur, after,
                 shotTs, pendingTs, existingFiles, results, snapshot, overlapped, outcome,
                 runs, durable, claims >>

\* save() as a whole: nothing when there is no record
Saved(s) == Written(Stamp(s))

StoreInitialize(withScreenshots, vids) ==
    /\ calls < MaxCalls
    /\ calls' = calls + 1
    /\ hasState' = TRUE
    /\ state' = initialize(withScreenshots, vids, now)
    /\ file' = Written(state')
    /\ lastCall' = [op |-> "initialize", repeat |-> "no", vids |-> vids, returned |-> <<>>, saved |-> TRUE]
    /\ now' = now
    /\ PipelineUnchanged

\* history: whether a call of addNewVideos repeats the call before it
Repeats(call, vids) ==
    IF call.op = "addNewVideos" /\ call.vids = vids
    THEN (IF call.returned # <<>> THEN "grew" ELSE "same")
    ELSE "no"

StoreAddNewVideos(vids) ==
    /\ calls < MaxCalls
    /\ calls' = calls + 1
    /\ IF ~hasState
       THEN /\ lastCall' = [op |-> "addNewVideos", repeat |-> Repeats(lastCall, vids),
                            vids |-> vids, returned |-> <<>>, saved |-> FALSE]
            /\ UNCHANGED << state, file >>
       ELSE LET r == addNewVideos(state, vids)
            IN  /\ lastCall' = [op |-> "addNewVideos", repeat |-> Repeats(lastCall, vids),
                                vids |-> vids, returned |-> r.newVideoIds, saved |-> r.saves]
                /\ state' = IF r.saves THEN Stamp(r.doc) ELSE r.doc
                /\ file' = IF r.saves THEN Written(state') ELSE file
    /\ UNCHANGED << hasState, now >>
    /\ PipelineUnchanged

\* an updateSummaryStatus that reaches its save() for every id
StoreUpdateSummaryAlwaysSaving(videoId, status, timestamps, error) ==
    /\ calls < MaxCalls
    /\ calls' = calls + 1
    /\ lastCall' = [op |-> "updateSummaryStatus", repeat |-> "no", vids |-> <<>>, returned |-> <<>>,
                    saved |-> hasState]
    /\ IF hasState
       THEN /\ state' = Stamp(updateSummaryStatus(state, videoId, status, timestamps, error))
            /\ file' = Written(state')
       ELSE UNCHANGED << state, file >>
    /\ UNCHANGED << hasState, now >>
    /\ PipelineUnchanged

StoreUpdateSummary(videoId, status, timestamps, error) ==
    /\ calls < MaxCalls
    /\ calls' = calls + 1
    /\ lastCall' = [op |-> "updateSummaryStatus", repeat |-> "no", vids |-> <<>>, returned |-> <<>>,
                    saved |-> hasState /\ videoId \in Tracked(state)]
    /\ IF hasState /\ videoId \in Tracked(state)
       THEN /\ state' = Stamp(updateSummaryStatus(state, videoId, status, timestamps, error))
            /\ file' = Written(state')
       ELSE UNCHANGED << state, file >>
    /\ UNCHANGED << hasState, now >>
    /\ PipelineUnchanged

StoreUpdateScreenshots(videoId, status, files, error) ==
    /\ calls < MaxCalls
    /\ calls' = calls + 1
    /\ lastCall' = [op |-> "updateScreenshotStatus", repeat |-> "no", vids |-> <<>>, returned |-> <<>>,
                    saved |-> hasState /\ videoId \in Tracked(state)]
    /\ IF hasState /\ videoId \in Tracked(state)
       THEN /\ state' = Stamp(updateScreenshotStatus(state, videoId, status, Len(files),
                                                     files, error))
            /\ file' = Written(state')
       ELSE UNCHANGED << state, file >>
    /\ UNCHANGED << hasState, now >>
    /\ PipelineUnchanged

\* a new StateManager on the same path calls load()
StoreLoad ==
    /\ calls < MaxCalls
    /\ calls' = calls + 1
    /\ lastCall' = [op |-> "load", repeat |-> "no", vids |-> <<>>, returned |-> <<>>, saved |-> FALSE]
    /\ hasState' = load(file).ok
    /\ state' = load(file).doc
    /\ UNCHANGED << file, now >>
    /\ PipelineUnchanged

Tick ==
    /\ now < MaxClock
    /\ now' = now + 1
    /\ UNCHANGED << file, hasState, state, lastCall, calls >>
    /\ PipelineUnchanged

StoreIds == {"a", "b"}

\* lists of {id, title} of length 0..2, as the catalog can return them
StoreLists ==
    LET items == { [id |-> "a", title |-> TitleA], [id |-> "a", title |-> TitleB],
                   [id |-> "b", title |-> TitleB] }
    IN  {<<>>} \cup {<<x>> : x \in items} \cup {<<x, y>> : x \in items, y \in items}

\* the argument shapes with which processVideo calls updateSummaryStatus
SummaryCalls ==
    { [status |-> "in_progress", timestamps |-> NoTimestamps, error |-> ""],
      [status |-> "completed", timestamps |-> Given(<<>>), error |-> ""],
      [status |-> "completed", timestamps |-> Given(<<T1, T2>>), error |-> ""],
      [status |-> "failed", timestamps |-> NoTimestamps, error |-> ErrSummarize] }

\* the argument shapes with which processVideo calls updateScreenshotStatus
ScreenshotCalls ==
    { [status |-> "in_progress", files |-> <<>>, error |-> ""],
      [status |-> "failed", files |-> <<>>, error |-> ErrShot],
      [status |-> "failed", files |-> <<CaptureFilename(T1)>>, error |-> ErrShot],
      [status |-> "completed", files |-> <<CaptureFilename(T1), CaptureFilename(T2)>>,
       error |-> ""] }

StoreNext ==
    \/ \E ws \in BOOLEAN, vids \in StoreLists : StoreInitialize(ws, vids)
    \/ \E vids \in StoreLists : StoreAddNewVideos(vids)
    \/ \E id \in StoreIds, c \in SummaryCalls :
          StoreUpdateSummary(id, c.status, c.timestamps, c.error)
    \/ \E id \in StoreIds, c \in ScreenshotCalls :
          StoreUpdateScreenshots(id, c.status, c.files, c.error)
    \/ StoreLoad
    \/ Tick

StoreSpec == Init /\ [][StoreNext]_vars

(***************************************************************************)
(* Properties.                                                             *)
(***************************************************************************)
Status(s, id) == [summary |-> s.videos[id].summary.status,
                  capture |-> s.videos[id].screenshots.status]

\* C1: crash-resumability. A run never calls the summarizer for a video whose
\* Summarize stage a completed write had put on disk as completed, whatever
\* the point at which earlier runs were killed.
C1_NoResummarize ==
    \A w \in Workers :
        pc[w] = "summarizing" => ~durable[Video(w)].summarized

\* C2: getPendingVideos returns exactly the tracked videos that are not done
\* (done: Summarize completed and capture disabled in the record or Capture
\* completed), and every video with a stage in_progress or failed is pending.
C2_PendingIsNotDone ==
    hasState =>
        /\ Range(getPendingVideos(state)) =
              {id \in Tracked(state) :
                  ~ /\ Status(state, id).summary = "completed"
                    /\ (~state.withScreenshots \/ Status(state, id).capture = "completed")}
        /\ \A id \in Tracked(state) :
              \/ Status(state, id).summary \in {"in_progress", "failed"}
              \/ Status(state, id).capture \in {"in_progress", "failed"}
              => id \in Range(getPendingVideos(state))

\* C3: set-difference retry. The capturer is called only for declared
\* timestamps whose file is not in the produced list, and never for a
\* timestamp whose file a completed write had recorded on disk.
C3_NoRecapture ==
    \A w \in Workers :
        pc[w] = "capturing" =>
            \A i \in 1..Len(pendingTs[w]) :
                /\ pendingTs[w][i] \in Range(shotTs[w])
                /\ CaptureFilename(pendingTs[w][i])
                      \notin Range(state.videos[Video(w)].screenshots.files)
                /\ CaptureFilename(pendingTs[w][i]) \notin Range(durable[Video(w)].files)

\* C4: for every tracked video the Capture count is the length of the files
\* list, and the files list never shrinks: what was recorded on disk is a
\* prefix of the list the record holds, in this run and in every later one.
C4_FilesNeverShrink ==
    hasState =>
        \A id \in Tracked(state) :
            /\ state.videos[id].screenshots.completed = Len(state.videos[id].screenshots.files)
            /\ IsPrefix(durable[id].files, state.videos[id].screenshots.files)

\* C5: when processVideo has ended without raising in a run with capture
\* enabled, Capture is completed if no timestamp remained or every requested
\* capture succeeded, and failed if a requested capture failed.
C5_CaptureOutcome ==
    \A w \in Workers :
        (pc[w] \in {"next", "exited"} /\ outcome[w] = "ok" /\ cfg.withScreenshots) =>
            /\ Status(state, Video(w)).summary = "completed"
            /\ Status(state, Video(w)).capture =
                  IF pendingTs[w] = <<>> \/ \A i \in 1..Len(results[w]) : results[w][i]
                  THEN "completed" ELSE "failed"

\* C6: addNewVideos leaves the record of every video tracked before the call
\* as it was (title, slug, Summarize and Capture state), whatever title or
\* position the incoming list gives it.
C6_ReconcileKeepsTracked ==
    [][ (lastCall'.op = "addNewVideos" /\ calls' = calls + 1 /\ hasState) =>
            \A id \in Tracked(state) :
                id \in Tracked(state') /\ state'.videos[id] = state.videos[id] ]_vars

\* a tracked video with progress got another title in the list of a call
\* that also added a video
C6_Witness ==
    /\ hasState
    /\ lastCall.op = "addNewVideos"
    /\ lastCall.returned # <<>>
    /\ \E i \in 1..Len(lastCall.vids) :
          LET id == lastCall.vids[i].id
          IN  /\ id \in Tracked(state)
              /\ id \notin Range(lastCall.returned)
              /\ lastCall.vids[i].title # state.videos[id].title
              /\ Status(state, id).summary = "completed"

\* C7: failure isolation. No processVideo chain is rejected; a run never gets
\* stuck before its final stats; when it reports them every item of the work
\* list has been attempted and has a terminal Summarize status; an item that
\* raised has a stage failed.
C7_FailureIsolation ==
    /\ \A w \in Workers : pc[w] # "rejected"
    /\ phase \in {"starting", "spawning", "running"} => ENABLED RunStep(PoolSummaryResults)
    /\ (phase = "done") =>
          /\ \A i \in 1..Len(videos) :
                /\ claims[i] >= 1
                /\ Status(state, videos[i]).summary \in {"completed", "failed"}
          /\ \A w \in 1..started : pc[w] = "exited"
    /\ \A w \in Workers :
          outcome[w] = "error" =>
              "failed" \in {Status(state, Video(w)).summary, Status(state, Video(w)).capture}

\* a pooled run of three items ended with one item failed in Summarize and
\* another one completed
C7_Witness ==
    /\ phase = "done"
    /\ cfg.concurrency = 2
    /\ Len(videos) = 3
    /\ Status(state, videos[2]).summary = "failed"
    /\ Status(state, videos[1]).summary = "completed"
    /\ Status(state, videos[3]).summary = "completed"

\* C8: at no time are two writeFile calls on the state file in flight.
C8_OneWriteAtATime == Cardinality(Writing) <= 1

\* C9: when the run has finished, the state file holds the in-memory record.
C9_FileIsRecord == (phase = "done" /\ hasState) => file = Written(state)

\* C10: bounded worker pool. Exactly min(c, n) chains are started, at most
\* min(c, n) items are in process, every position of the work list is claimed
\* exactly once and in order, and a chain claims only when it holds no item.
C10_Counts ==
    LET limit == Min(cfg.concurrency, Len(videos))
        busy == {w \in Workers : pc[w] \notin {"off", "next", "exited"}}
    IN  /\ started <= limit
        /\ phase \in {"running", "done"} => started = limit
        /\ Cardinality(busy) <= limit
        /\ Cursor <= Len(videos)
        /\ phase \in {"spawning", "running", "done"} => DOMAIN claims = 1..Len(videos)
        /\ \A i \in DOMAIN claims : claims[i] = IF i <= Cursor THEN 1 ELSE 0
        /\ phase = "done" => Cursor = Len(videos)
        /\ \A w1 \in busy, w2 \in busy : w1 # w2 => cur[w1] # cur[w2]

C10_Claim ==
    \A w \in Workers :
        (phase' # "idle" /\ cur'[w] # cur[w]) =>
            /\ pc[w] \in {"off", "next"}
            /\ cur'[w] = Cursor + 1
            /\ Cursor' = Cursor + 1

C10_BoundedPool == []C10_Counts /\ [][C10_Claim]_vars

\* two workers are busy while a third item waits, and a worker that has
\* finished an item has claimed the next one
C10_Witness ==
    /\ cfg.concurrency = 2
    /\ Len(videos) = 3
    /\ nextIndex = 3
    /\ \E w \in Workers : cur[w] = 3 /\ pc[w] = "summarizing"
    /\ \E w \in Workers : cur[w] = 2 /\ pc[w] = "capturing"

\* C11: partition invariant. Whenever a record is loaded, the four buckets of
\* getStats add up to its total.
C11_Partition ==
    hasState =>
        LET stats == getStats(state)
        IN  stats.completed + stats.inProgress + stats.failed + stats.pending = stats.total

\* C12: every video getFailedVideos returns is returned by getPendingVideos.
C12_FailedArePending ==
    hasState => Range(getFailedVideos(state)) \subseteq Range(getPendingVideos(state))

\* the number a slug starts with: the digits before its first "-"
SlugIndexFrom(slug, i, acc) ==
    LET value == [c \in {"0", "1", "2", "3", "4", "5", "6", "7", "8", "9"} |->
                     CHOOSE d \in 0..9 : Digit(d) = c]
        F[k \in 1..(Len(slug) + 1), a \in Nat] ==
            IF k > Len(slug) \/ slug[k] \notin DOMAIN value THEN a
            ELSE F[k + 1, a * 10 + value[slug[k]]]
    IN  F[i, acc]

SlugIndex(s, id) == SlugIndexFrom(s.videos[id].outputDir, 1, 0)

MaxIndex(s) ==
    IF Tracked(s) = {} THEN 0
    ELSE CHOOSE m \in {SlugIndex(s, id) : id \in Tracked(s)} :
            \A id \in Tracked(s) : SlugIndex(s, id) <= m

C13_Distinct ==
    hasState =>
        \A x \in Tracked(state), y \in Tracked(state) :
            x # y => SlugIndex(state, x) # SlugIndex(state, y)

C13_Step ==
    (lastCall'.op = "addNewVideos" /\ calls' = calls + 1 /\ hasState) =>
        /\ \A id \in Tracked(state) :
              id \in Tracked(state') /\ SlugIndex(state', id) = SlugIndex(state, id)
        /\ \A k \in 1..Len(lastCall'.returned) :
              SlugIndex(state', lastCall'.returned[k]) = MaxIndex(state) + k

\* C13: stable slots. No two tracked videos carry the same index in their
\* slugs; addNewVideos keeps the index of every tracked video and gives the
\* k-th video it adds the index max(existing indices) + k.
C13_StableSlots == []C13_Distinct /\ [][C13_Step]_vars

\* C14: after any call of addNewVideos on a loaded record, totalVideos is the
\* number of entries of the videos mapping.
C14_TotalIsEntries ==
    (hasState /\ lastCall.op = "addNewVideos") =>
        state.totalVideos = Cardinality(Tracked(state))

\* C15: idempotent reconciliation. A call of addNewVideos that repeats the
\* call before it with the same list returns the empty list, leaves the whole
\* record (updatedAt included) and the state file as they are, and saves
\* nothing.
C15_SecondCallIsNoOp ==
    [][ (calls' = calls + 1 /\ lastCall'.op = "addNewVideos" /\ lastCall'.repeat # "no") =>
            /\ lastCall'.returned = <<>>
            /\ ~lastCall'.saved
            /\ state' = state
            /\ file' = file ]_vars

\* the first call added a video and saved; time passed; the second call with
\* the same list has returned
C15_Witness ==
    /\ hasState
    /\ lastCall.op = "addNewVideos"
    /\ lastCall.repeat = "grew"
    /\ lastCall.vids # <<>>
    /\ state.updatedAt < now

C17_Bound ==
    LET busy == {w \in Workers : pc[w] \notin {"off", "next", "exited"}}
    IN  /\ completedCount <= Len(videos)
        /\ phase \in {"spawning", "running", "done"} =>
              completedCount <= Cursor - Cardinality(busy)

C17_Step ==
    /\ completedCount' # completedCount =>
          \/ /\ completedCount' = completedCount + 1
             /\ \E w \in Workers : outcome'[w] = "ok" /\ pc'[w] = "next"
                                   /\ (outcome[w] # "ok" \/ cur'[w] # cur[w])
          \/ completedCount' = 0 /\ phase' \in {"idle", "spawning", "running"}
                                 /\ phase \in {"starting", "done"}
    /\ \A w \in Workers :
          (outcome'[w] = "error" /\ outcome[w] # "error") => completedCount' = completedCount

\* C17: the count carried by onVideoComplete. Within a run the count starts
\* at 0 and changes only by one, at a step in which a processVideo call ends
\* without having raised: the notifications carry 1, 2, ..., k. The count
\* never exceeds the number of items that have ended, and a call that ends
\* in the catch block leaves it as it is.
C17_CountsAreSequential == []C17_Bound /\ [][C17_Step]_vars

\* two workers, three items: the item at position 2 ended first and got
\* count 1, while the item at position 1 is still in process
C17_Witness ==
    /\ cfg.concurrency = 2
    /\ Len(videos) = 3
    /\ completedCount = 1
    /\ \E w \in Workers : cur[w] = 1 /\ pc[w] = "summarizing"
    /\ \E w \in Workers : cur[w] = 3

C18_NoItemsAborts ==
    (phase # "idle" /\ pc[0] # "threw") => lastCall.vids # <<>>

C18_AbortKeepsFile ==
    (pc'[0] = "threw" /\ pc[0] # "threw") =>
        /\ phase = "idle"
        /\ file' = file
        /\ state' = state
        /\ hasState' = hasState

\* C18: a run whose precondition fails (no playlist URL, playlist not found,
\* playlist without items) throws before a video enters the pipeline and
\* leaves the state file as it was: a run that gets past the precondition
\* has a playlist with at least one item, and the step that throws writes
\* nothing.
C18_PreconditionAborts == []C18_NoItemsAborts /\ [][C18_AbortKeepsFile]_vars

\* C19: a call of updateSummaryStatus changes the Capture total of a video
\* only when that total is not set yet (0) and the call records Summarize
\* completed with a timestamp list, and then to the length of the list; a
\* total that is already non-zero stays.
C19_TotalSeededOnce ==
    [][ (calls' = calls + 1 /\ lastCall'.op = "updateSummaryStatus" /\ hasState) =>
            \A id \in Tracked(state) :
                LET old == state.videos[id].screenshots.total
                    new == state'.videos[id].screenshots.total
                    summary == state'.videos[id].summary
                IN  /\ old # 0 => new = old
                    /\ new # old => /\ summary.status = "completed"
                                    /\ new = Len(summary.timestamps) ]_vars

C20_Files ==
    hasState =>
        \A id \in Tracked(state) :
            LET files == state.videos[id].screenshots.files
                declared == state.videos[id].summary.timestamps
            IN  /\ \A i \in 1..Len(files), j \in 1..Len(files) : files[i] = files[j] => i = j
                /\ \A i \in 1..Len(files) :
                      files[i] \in {CaptureFilename(declared[k]) : k \in 1..Len(declared)}

C20_Merge ==
    \A w \in Workers :
        (pc[w] = "capturing" /\ after'[w] = "captured") =>
            LET before == state.videos[Video(w)].screenshots.files
                files == state'.videos[Video(w)].screenshots.files
                succeeded == SelectIn([i \in 1..Len(pendingTs[w]) |-> i],
                                      {i \in 1..Len(pendingTs[w]) : results'[w][i]})
            IN  /\ Len(files) = Len(before) + Len(succeeded)
                /\ \A i \in 1..Len(before) : files[i] = before[i]
                /\ \A k \in 1..Len(succeeded) :
                      files[Len(before) + k] = CaptureFilename(pendingTs[w][succeeded[k]])

\* C20: the files list. When captureMultiple returns, the list recorded is
\* the list recorded before followed by the files of the captures that
\* succeeded, in order; in every state the list of a video has no entry
\* twice, and every entry is the file name of one of the timestamps recorded
\* in its Summarize stage.
C20_FilesMerge == []C20_Files /\ [][C20_Merge]_vars

\* the derived classification of a tracked video
IsDone(s, id) ==
    /\ Status(s, id).summary = "completed"
    /\ (~s.withScreenshots \/ Status(s, id).capture = "completed")

IsFailed(s, id) == "failed" \in {Status(s, id).summary, Status(s, id).capture}

IsInProgress(s, id) ==
    /\ ~IsFailed(s, id)
    /\ ~IsDone(s, id)
    /\ "in_progress" \in {Status(s, id).summary, Status(s, id).capture}

\* C21: getStats agrees with the derived classification: completed counts
\* the done videos, failed the videos with a stage failed, inProgress the
\* videos neither failed nor done with a stage in_progress, pending the rest.
C21_StatsMatchClassification ==
    hasState =>
        LET stats == getStats(state)
            done == {id \in Tracked(state) : IsDone(state, id)}
            failed == {id \in Tracked(state) : IsFailed(state, id)}
            active == {id \in Tracked(state) : IsInProgress(state, id)}
        IN  /\ stats.completed = Cardinality(done)
            /\ stats.failed = Cardinality(failed)
            /\ stats.inProgress = Cardinality(active)
            /\ stats.pending = Cardinality(Tracked(state) \ (done \cup failed \cup active))

C22_Initialized ==
    (calls' = calls + 1 /\ lastCall'.op = "initialize") =>
        LET vids == lastCall'.vids
        IN  /\ \A i \in 1..Len(vids) :
                /\ vids[i].id \in Tracked(state')
                /\ Status(state', vids[i].id) = [summary |-> "pending", capture |-> "pending"]
                /\ state'.videos[vids[i].id].screenshots.total = 0
                /\ state'.videos[vids[i].id].screenshots.completed = 0
                /\ state'.videos[vids[i].id].screenshots.files = <<>>
                /\ SlugIndex(state', vids[i].id) = i
            /\ state'.totalVideos = Cardinality(Tracked(state'))
            /\ file' = Written(state')
            /\ getPendingVideos(state') = [i \in 1..Len(vids) |-> vids[i].id]

\* C22: after initialize(id, title, config, items) every input item is tracked
\* with Summarize pending, Capture pending with total 0, completed 0 and no
\* files, and a slug index equal to its 1-based position in the input list;
\* totalVideos is the number of tracked items, the document is saved, and
\* getPendingVideos() returns all the ids in input order.
C22_InitializeTracksInput == [][C22_Initialized]_vars

\* the number of calls of processVideo made so far in this run
CallsMade ==
    LET F[k \in 0..Len(claims)] == IF k = 0 THEN 0 ELSE F[k - 1] + claims[k]
    IN  F[Len(claims)]

\* processVideo has returned for the item at position i: its try block has
\* ended or its catch block has, and Summarize is completed or failed
Terminal(i) ==
    /\ pc[1] = "next"
    /\ videos[i] \in Tracked(state) =>
          /\ outcome[1] \in {"ok", "error"}
          /\ Status(state, videos[i]).summary \in {"completed", "failed"}

C23_Step ==
    (cfg.concurrency <= 1 /\ phase \in {"spawning", "running"} /\ phase' # "idle") =>
        /\ started' <= 1
        /\ \A w \in Workers : cur'[w] # cur[w] => w = 1 /\ claims' # claims
        /\ claims' # claims =>
              /\ cur[1] = CallsMade
              /\ cur[1] >= 1 => Terminal(cur[1])
              \* runNext of worker 1, its cursor being the number of calls made
              /\ CallsMade < Len(videos)
              /\ Begin(1, CallsMade + 1)
        /\ (pc'[1] = "exited" /\ pc[1] # "exited") =>
              /\ Terminal(cur[1])
              /\ CallsMade >= Len(videos)

PlaylistResult(s) == s.order

\* C24: the item list a playlist run hands to the document publisher holds
\* only items that are done at the end of the run; pending, in_progress and
\* failed items are never published.
C24_OnlyDoneHandedOver ==
    (phase = "done" /\ pc[0] = "returned") =>
        \A i \in 1..Len(PlaylistResult(state)) : IsDone(state, PlaylistResult(state)[i])

C25_Step ==
    \A id \in StoreIds :
        (~hasState \/ id \notin Tracked(state)) =>
            /\ \A c \in SummaryCalls :
                  StoreUpdateSummary(id, c.status, c.timestamps, c.error) =>
                      state' = state /\ file' = file /\ hasState' = hasState
            /\ \A c \in ScreenshotCalls :
                  StoreUpdateScreenshots(id, c.status, c.files, c.error) =>
                      state' = state /\ file' = file /\ hasState' = hasState

\* C25: updateSummaryStatus and updateScreenshotStatus called with an id that
\* is not tracked do nothing: the document, its updatedAt included, stays as
\* it is, nothing is saved, and the call returns normally.
C25_UntrackedIsNoOp == [][C25_Step]_vars

\* a stage update for the untracked 'b' has returned, later than the last
\* save, and the record and the file are those of that save
C25_Witness ==
    /\ lastCall.op \in {"updateSummaryStatus", "updateScreenshotStatus"}
    /\ ~lastCall.saved
    /\ hasState
    /\ Tracked(state) = {"a"}
    /\ state.updatedAt < now
    /\ file = Written(state)

\* the summarizer is called by worker w in this step
SummarizerInvoked(w) == pc'[w] = "summarizing" /\ pc[w] # "summarizing"

\* the call of the summarizer by worker w ends in this step, in the running process
SummarizerEnded(w) == pc[w] = "summarizing" /\ pc'[w] # "summarizing" /\ phase' # "idle"

C26_Before ==
    \A w \in Workers :
        SummarizerInvoked(w) =>
            /\ Status(state', Video(w)).summary = "in_progress"
            /\ file'.kind = "doc"
            /\ Video(w) \in Tracked(file'.doc)
            /\ file'.doc.videos[Video(w)].summary.status = "in_progress"

C26_After ==
    \A w \in Workers :
        SummarizerEnded(w) =>
            LET summary == state'.videos[Video(w)].summary
            IN  \/ /\ summary.status = "completed"
                   /\ summary.error = ""
                   /\ \E r \in SummaryResults : summary.timestamps = r.timestamps
                \/ summary = [status |-> "failed", timestamps |-> <<>>, error |-> ErrSummarize]

\* within a run, Summarize of a video moves only when its executor begins
\* (to in_progress, from a status other than completed) and when the call of
\* the summarizer ends
C26_Once ==
    (phase = "running" /\ phase' = "running") =>
        \A v \in Tracked(state) :
            state'.videos[v].summary # state.videos[v].summary =>
                \E w \in Workers :
                    /\ cur'[w] \in 1..Len(videos) /\ videos[cur'[w]] = v
                    /\ \/ /\ pc[w] \in {"off", "next"}
                          /\ state.videos[v].summary.status # "completed"
                          /\ state'.videos[v].summary.status = "in_progress"
                       \/ /\ SummarizerEnded(w)
                          /\ state.videos[v].summary.status = "in_progress"

\* C26: Summarize executor protocol. The stage is set to in_progress and
\* persisted before the summarizer is called; the call is followed by exactly
\* one transition, to completed with the returned timestamps or to failed with
\* the error message; the summarizer is never called for an item whose
\* Summarize stage is completed.
C26_SummarizeProtocol == [][C26_Before /\ C26_After /\ C26_Once]_vars

C27_Order ==
    hasState =>
        \A v \in Tracked(state) :
            Status(state, v).capture # "pending" => Status(state, v).summary = "completed"

C27_Invoke ==
    \A w \in Workers :
        (pc'[w] = "capturing" /\ pc[w] # "capturing") =>
            /\ Status(state, Video(w)).summary = "completed"
            /\ Status(state', Video(w)).summary = "completed"

\* C27: stage ordering. The Capture stage of an item has a status other than
\* pending only if its Summarize stage is completed, and the capturer is never
\* called for an item before its Summarize stage is completed.
C27_SummarizeBeforeCapture == []C27_Order /\ [][C27_Invoke]_vars

\* the capturer is running for an item whose Summarize stage is completed
C27_Witness ==
    \E w \in Workers :
        /\ pc[w] = "capturing"
        /\ Status(state, Video(w)) = [summary |-> "completed", capture |-> "in_progress"]

\* timestamps in the formats the summarizer is asked for: M:SS and H:MM:SS
SampleTimestamps ==
    {T1, T2, T3}
    \cup {<<m, ":", s1, "0">> : m \in {"0", "5"}, s1 \in {"0", "5"}}
    \cup {<<"1", ":", m, "0", ":", "0", "5">> : m \in {"0", "5"}}

C28_RoundTrip ==
    /\ \A ts \in SampleTimestamps : ExistingTimestamp(CaptureFilename(ts)) = ts
    /\ hasState =>
          \A v \in Tracked(state) :
              \A i \in 1..Len(state.videos[v].screenshots.files) :
                  LET f == state.videos[v].screenshots.files[i]
                  IN  CaptureFilename(ExistingTimestamp(f)) = f

C28_Recorded ==
    \A w \in Workers :
        /\ (pc'[w] = "capturing" /\ pc[w] # "capturing") =>
              /\ ExistingTimestamps(existingFiles'[w])
                    = ExistingTimestamps(state.videos[Video(w)].screenshots.files)
              /\ Range(pendingTs'[w]) \cap ExistingTimestamps(existingFiles'[w]) = {}
        /\ (pc[w] = "capturing" /\ phase' = "running"
            /\ state'.videos[Video(w)].screenshots.files # state.videos[Video(w)].screenshots.files) =>
              ExistingTimestamps(state'.videos[Video(w)].screenshots.files)
                  = ExistingTimestamps(existingFiles[w])
                    \cup {pendingTs[w][i] : i \in {j \in 1..Len(results'[w]) : results'[w][j]}}

\* C28: round trip of the filename rule. Recovering a timestamp from the file
\* name made for a timestamp ts (strip .png, replace - by :) yields ts, so that
\* on a retry the set of timestamps already produced is exactly the set of
\* timestamps whose capture was recorded.
C28_FilenameRoundTrip == []C28_RoundTrip /\ [][C28_Recorded]_vars

\* a retry that finds the file of T1 recorded and asks for T2 only
C28_Witness ==
    \E w \in Workers :
        /\ pc[w] = "capturing"
        /\ existingFiles[w] = <<CaptureFilename(T1)>>
        /\ pendingTs[w] = <<T2>>

\* while a record is loaded no step removes a tracked id from it
C29_InMemory == (hasState /\ hasState') => Tracked(state) \subseteq Tracked(state')

\* a video whose completed Summarize was once written to the state file is
\* tracked by every document the file holds later
C29_OnDisk ==
    file.kind = "doc" =>
        \A id \in DOMAIN durable : durable[id].summarized => id \in Tracked(file.doc)

\* C29: the set of tracked ids never shrinks. Once a state document exists no
\* operation (a reconcile after items have left the playlist, a stage update,
\* a whole run) removes an item from it.
C29_TrackedNeverRemoved == []C29_OnDisk /\ [][C29_InMemory]_vars

\* while a record is loaded, a completed Summarize stage stays as it is
C30_InMemory ==
    (hasState /\ hasState') =>
        \A id \in Tracked(state) :
            state.videos[id].summary.status = "completed" =>
                /\ id \in Tracked(state')
                /\ state'.videos[id].summary = state.videos[id].summary

\* a video whose completed Summarize was once written to the state file is
\* completed in every later document that tracks it
C30_OnDisk ==
    file.kind = "doc" =>
        \A id \in Tracked(file.doc) :
            durable[id].summarized => file.doc.videos[id].summary.status = "completed"

\* C30: Summarize completed is absorbing. Once the stage of an item is
\* completed, no later run, reconciliation, capture failure or exception
\* handling changes its status or its list of timestamps.
C30_CompletedIsAbsorbing == []C30_OnDisk /\ [][C30_InMemory]_vars

\* a retry of video v would find no timestamp left to capture: lines 196-210
\* on a record whose Summarize is completed
NoRemainingWork(s, v) ==
    /\ s.videos[v].summary.status = "completed"
    /\ PendingTimestamps(s.videos[v].summary.timestamps, s.videos[v].screenshots.files) = <<>>

\* C31: eventual convergence. When a run has returned, no item it processed is
\* left in the pending set with no work remaining (Summarize completed and no
\* timestamp left to capture): such an item would be handed to every later
\* run and never become done, however often the collaborators succeed.
C31_NoIdlePending ==
    (hasState /\ phase = "done" /\ pc[0] = "returned") =>
        \A i \in 1..Len(videos) :
            (videos[i] \in Tracked(state) /\ NoRemainingWork(state, videos[i])) =>
                videos[i] \notin Range(getPendingVideos(state))

\* C32: consistent capture flag. When a run started with capture disabled
\* has returned and Summarize of every tracked item is completed, the pending
\* set is empty; when a run started with capture enabled has returned, every
\* tracked item whose Capture is not completed is in the pending set;
\* whatever flag an earlier run persisted in the record.
C32_FlagOfTheRun ==
    (hasState /\ phase = "done" /\ pc[0] = "returned") =>
        /\ (~cfg.withScreenshots
            /\ \A v \in Tracked(state) : Status(state, v).summary = "completed")
              => getPendingVideos(state) = <<>>
        /\ cfg.withScreenshots =>
              \A v \in Tracked(state) :
                  Status(state, v).capture # "completed" =>
                      v \in Range(getPendingVideos(state))

\* C33: in every reachable record, a video whose Summarize is completed has
\* a Capture count of at most its Capture total, also after a resumed run has
\* derived the timestamps to capture from the recorded Summarize state.
C33_CountWithinTotal ==
    hasState =>
        \A v \in Tracked(state) :
            Status(state, v).summary = "completed" =>
                state.videos[v].screenshots.completed <= state.videos[v].screenshots.total

\* C34: whenever the Capture status of a video is completed, its Capture
\* count equals its Capture total and its files list holds the file of every
\* timestamp recorded in its Summarize stage.
C34_CompletedIsComplete ==
    hasState =>
        \A v \in Tracked(state) :
            Status(state, v).capture = "completed" =>
                LET screenshots == state.videos[v].screenshots
                    declared == state.videos[v].summary.timestamps
                IN  /\ screenshots.completed = screenshots.total
                    /\ \A k \in 1..Len(declared) :
                          CaptureFilename(declared[k]) \in Range(screenshots.files)

\* onVideoComplete is called in this step (line 273-274: completedCount++),
\* by the worker the step belongs to
NotifiesComplete(w) ==
    /\ completedCount' = completedCount + 1
    /\ pc'[w] # pc[w] \/ cur'[w] # cur[w]

\* C35: every item for which onVideoComplete is issued is done at that
\* moment: its Summarize is completed and, when the run has capture enabled,
\* its Capture is completed; an item whose capture ended failed is not
\* reported as completed.
C35_CompleteMeansDone ==
    [][ \A w \in Workers :
            NotifiesComplete(w) =>
                LET v == videos[cur'[w]]
                IN  /\ Status(state', v).summary = "completed"
                    /\ cfg.withScreenshots => Status(state', v).capture = "completed" ]_vars

\* the step belongs to the processVideo call of worker w
Acts(w) == pc'[w] # pc[w] \/ cur'[w] # cur[w]

C36_Step ==
    (phase \in {"spawning", "running"} /\ phase' \in {"spawning", "running"}) =>
        /\ state' # state => \E w \in Workers : Acts(w)
        /\ \A w \in Workers :
              Acts(w) =>
                  /\ Tracked(state') = Tracked(state)
                  /\ state'.order = state.order
                  /\ state'.totalVideos = state.totalVideos
                  /\ state'.withScreenshots = state.withScreenshots
                  /\ state'.createdAt = state.createdAt
                  /\ \A y \in Tracked(state) :
                        y # videos[cur'[w]] => state'.videos[y] = state.videos[y]
                  /\ state'.videos[videos[cur'[w]]].title = state.videos[videos[cur'[w]]].title
                  /\ state'.videos[videos[cur'[w]]].outputDir
                        = state.videos[videos[cur'[w]]].outputDir

\* C36: per-item isolation of writes. Under any interleaving of workers the
\* processing of item X changes only the Summarize and Capture state of X in
\* the record (and updatedAt); the title, slug, Summarize state and Capture
\* state of every other item are never modified by the worker handling X.
C36_WritesOwnItemOnly == [][C36_Step]_vars

\* two workers are in the middle of two different items, one summarized and
\* capturing, the other being summarized
C36_Witness ==
    \E w1 \in Workers, w2 \in Workers :
        /\ w1 # w2
        /\ pc[w1] = "capturing"
        /\ pc[w2] = "summarizing"
        /\ Status(state, Video(w1)) = [summary |-> "completed", capture |-> "in_progress"]
        /\ Status(state, Video(w2)) = [summary |-> "in_progress", capture |-> "pending"]

\* C37: in_progress is transient within a run. When summarizePlaylist
\* returns (the process was not killed), no item processed in that run has
\* its Summarize or Capture stage in_progress: each such stage ended
\* completed or failed, also when an exception was raised in the stage.
C37_NoneLeftInProgress ==
    (hasState /\ phase = "done" /\ pc[0] = "returned") =>
        \A i \in 1..Len(videos) :
            videos[i] \in Tracked(state) =>
                /\ Status(state, videos[i]).summary # "in_progress"
                /\ Status(state, videos[i]).capture # "in_progress"

====
